---- MODULE Spec2Model ----
(***************************************************************************)
(* Model of the mesh cell acuteness scoring engine (acuteness_wasm.cpp)    *)
(* and of the one-time initialisation of the geometry engine              *)
(* (periodic_delaunay.cpp).                                                *)
(*                                                                         *)
(* Floats.  Every coordinate of a VertexBuffer of the model is a small    *)
(* integer g times 2^scaleExp.  Such values, their differences, their      *)
(* squares and sums of squares are exactly representable in IEEE single    *)
(* precision, so the float arithmetic of the code is exact on them except  *)
(* where the result leaves the range of a float: the only such place is    *)
(* the product len1Sq * len2Sq of calculateAngle, whose exponent is        *)
(* 4 * scaleExp.  A float is the record [m |-> mantissa, e |-> exponent]   *)
(* (value m * 2^e); FRange rounds a product to 0 or to infinity when it    *)
(* leaves the range.                                                       *)
(***************************************************************************)
EXTENDS Integers, Sequences, FiniteSets, TLC

VARIABLES
    vertices,       \* VertexBuffer: flat sequence of mantissas, 3 per vertex
    scaleExp,       \* binary exponent shared by all coordinates of the buffer
    cellIndices,    \* CellTable: offsets into vertices
    maxNeighbors,   \* K of the last / next full pass
    scores,         \* the ScoreTable held by the caller
    op,             \* the last scoring operation: "init" (none), "full", "update"
    vertexReads,    \* 0-based indices of vertices read by the last operation
    tableReads,     \* 0-based indices of cellIndices read by the last operation
    scoreWrites,    \* 0-based ScoreTable slots written by the last operation
    changedCells,   \* the changed-cell list of the last updateCellAcuteness
    baseScores,     \* the ScoreTable as the last full pass returned it
    touched,        \* every index listed by an update since the last full pass
    g_geogram_initialized,  \* static flag of periodic_delaunay.cpp
    events          \* what compute_periodic_delaunay_js did, in order

vars == <<vertices, scaleExp, cellIndices, maxNeighbors, scores, op, vertexReads,
          tableReads, scoreWrites, changedCells, baseScores, touched,
          g_geogram_initialized, events>>

scoreVars == <<vertices, scaleExp, cellIndices, maxNeighbors, scores, op,
               vertexReads, tableReads, scoreWrites, changedCells, baseScores,
               touched>>

geoVars == <<g_geogram_initialized, events>>

(***************************************************************************)
(* Bounds of the model.                                                    *)
(***************************************************************************)
MaxVerts == 5       \* vertices in a VertexBuffer
MaxCells == 2       \* cells in a CellTable
MaxMoved == 1       \* leading vertices of a buffer placed freely
MaxK == 2           \* explicit neighbour counts 0..MaxK besides the default
MaxChanged == 2     \* length of a changed-cell list
MaxCalls == 3       \* compute_delaunay calls in one run

(***************************************************************************)
(* Program constants.                                                      *)
(***************************************************************************)
DefaultK == 6       \* int maxNeighbors = 6
FloatsPerVertex == 3
MinCellSize == 4    \* if (cellSize < 4)

\* IEEE single precision: a non-zero value of magnitude <= 2^-150 rounds to 0,
\* one of magnitude >= 2^128 rounds to infinity.
FloatMinExp == -150
FloatMaxExp == 128

\* Angles are kept by their order only:
\*   0 = acos(1) = 0, 1 = strictly between 0 and acos(0), 2 = acos(0),
\*   3 = strictly between acos(0) and pi, 4 = acos(-1) = pi.
\* HALF_PI = 1.5707963f is the float 0x3FC90FDA = 1.57079625..., which is not
\* above acos(0.0f) (0x3FC90FDA or 0x3FC90FDB, by the libm), and every angle
\* the model's inputs produce besides acos(0) is far from both: the test
\* "angle < HALF_PI" is the test "angle code < 2".
HALF_PI == 2

Abs(x) == IF x < 0 THEN -x ELSE x
Min(a, b) == IF a < b THEN a ELSE b

\* std::min(a, b) on ints, as <algorithm> defines it: (b < a) ? b : a
StdMin(a, b) == IF b < a THEN b ELSE a

\* C++ integer division truncates toward zero
TruncDiv(a, b) == IF a >= 0 THEN a \div b ELSE -((-a) \div b)

(***************************************************************************)
(* struct Vec3 and float arithmetic                                        *)
(***************************************************************************)
Float(m, e) == [m |-> m, e |-> e]

FSub(a, b) == Float(a.m - b.m, a.e)
FAdd(a, b) == Float(a.m + b.m, a.e)
FMul(a, b) == Float(a.m * b.m, a.e + b.e)

Underflows(f) ==
    /\ f.m # 0
    /\ f.e <= FloatMinExp
    /\ (FloatMinExp - f.e > 30 \/ Abs(f.m) <= 2 ^ (FloatMinExp - f.e))

Overflows(f) ==
    /\ f.m # 0
    /\ \/ f.e >= FloatMaxExp
       \/ FloatMaxExp - f.e <= 30 /\ Abs(f.m) >= 2 ^ (FloatMaxExp - f.e)

\* The class of a float result: "zero", "inf" or "fin" (finite, non-zero).
FRange(f) ==
    IF f.m = 0 \/ Underflows(f) THEN "zero"
    ELSE IF Overflows(f) THEN "inf"
    ELSE "fin"

Vec3(x, y, z) == [x |-> x, y |-> y, z |-> z]

\* float dot(const Vec3& other) const
Vec3Dot(a, b) == FAdd(FAdd(FMul(a.x, b.x), FMul(a.y, b.y)), FMul(a.z, b.z))

\* float lengthSquared() const
Vec3LengthSquared(a) == Vec3Dot(a, a)

\* Vec3 operator-(const Vec3& other) const
Vec3Sub(a, b) == Vec3(FSub(a.x, b.x), FSub(a.y, b.y), FSub(a.z, b.z))

(***************************************************************************)
(* calculateAngle.  cosTheta is kept by its class:                         *)
(*   -3 = -inf, -2 = -1, -1 in (-1,0), 0 = 0, 1 in (0,1), 2 = 1, 3 = +inf, *)
(*   NaN = not a number (every comparison with it is false).               *)
(***************************************************************************)
NaN == 99
CosOne == 2
CosMinusOne == -2

FLess(a, b) == a # NaN /\ b # NaN /\ a < b

\* std::min / std::max on floats: (b < a) ? b : a and (a < b) ? b : a
StdMinF(a, b) == IF FLess(b, a) THEN b ELSE a
StdMaxF(a, b) == IF FLess(a, b) THEN b ELSE a

\* dot / std::sqrt(len1Sq * len2Sq)
CosTheta(dot, len1Sq, len2Sq) ==
    LET prod == FMul(len1Sq, len2Sq)
        r == FRange(prod)
    IN  IF r = "zero"
        THEN (IF dot.m = 0 THEN NaN ELSE IF dot.m > 0 THEN 3 ELSE -3)
        ELSE IF r = "inf" THEN 0
        ELSE IF dot.m = 0 THEN 0
        ELSE IF dot.m * dot.m = prod.m THEN (IF dot.m > 0 THEN 2 ELSE -2)
        ELSE IF dot.m > 0 THEN 1 ELSE -1

\* std::acos on a clamped cosine
Acos(c) == 2 - c

\* Faulty variant: a zero-length vector gives a right angle instead of angle 0
calculateAngle_ZeroIsRight(v1, v2) ==
    LET dot == Vec3Dot(v1, v2)
        len1Sq == Vec3LengthSquared(v1)
        len2Sq == Vec3LengthSquared(v2)
    IN  IF FRange(len1Sq) = "zero" \/ FRange(len2Sq) = "zero" THEN HALF_PI
        ELSE Acos(StdMaxF(CosMinusOne, StdMinF(CosOne, CosTheta(dot, len1Sq, len2Sq))))

calculateAngle(v1, v2) ==
    LET dot == Vec3Dot(v1, v2)
        len1Sq == Vec3LengthSquared(v1)
        len2Sq == Vec3LengthSquared(v2)
    IN  IF FRange(len1Sq) = "zero" \/ FRange(len2Sq) = "zero" THEN 0
        ELSE Acos(StdMaxF(CosMinusOne, StdMinF(CosOne, CosTheta(dot, len1Sq, len2Sq))))

(***************************************************************************)
(* calculateCellAcuteness                                                  *)
(***************************************************************************)
\* Vec3(vertices[idx], vertices[idx + 1], vertices[idx + 2]), idx 0-based
VertexAt(verts, e, idx) ==
    Vec3(Float(verts[idx + 1], e), Float(verts[idx + 2], e), Float(verts[idx + 3], e))

\* The vector `distances` after the loop over `other`: (distSq, other) for
\* every other # v, in the order of other.
Distances(verts, e, start, cellSize, v) ==
    LET center == VertexAt(verts, e, start + v * FloatsPerVertex)
        otherOf(k) == IF k - 1 < v THEN k - 1 ELSE k
        diff(k) == Vec3Sub(VertexAt(verts, e, start + otherOf(k) * FloatsPerVertex), center)
    IN  [k \in 1..(cellSize - 1) |-> <<Vec3LengthSquared(diff(k)), otherOf(k)>>] \o <<>>

\* Faulty variant: the comparison of a descending sort
PairLess_Descending(p, q) == q[1].m < p[1].m \/ (~(p[1].m < q[1].m) /\ q[2] < p[2])

\* operator< of std::pair<float, int>
PairLess(p, q) == p[1].m < q[1].m \/ (~(q[1].m < p[1].m) /\ p[2] < q[2])

RemoveAt(seq, i) == SubSeq(seq, 1, i - 1) \o SubSeq(seq, i + 1, Len(seq))

\* std::partial_sort(first, first + middle, last): the `middle` smallest
\* elements in ascending order come first; the order of the others is
\* unspecified (they are left in their relative order here, and never read).
RECURSIVE PartialSort(_, _)
PartialSort(seq, middle) ==
    IF middle <= 0 \/ seq = <<>> THEN seq
    ELSE LET i == CHOOSE a \in 1..Len(seq) :
                      \A b \in 1..Len(seq) : b = a \/ PairLess(seq[a], seq[b])
         IN  <<seq[i]>> \o PartialSort(RemoveAt(seq, i), middle - 1)

\* distances after the partial sort, cut to its first numNeighbors entries
SortedNeighbors(verts, e, start, cellSize, v, K) ==
    LET distances == Distances(verts, e, start, cellSize, v)
        sorted == PartialSort(distances, StdMin(K, Len(distances)))
        numNeighbors == StdMin(K, Len(distances))
    IN  SubSeq(sorted, 1, numNeighbors)

\* The pairs j < k < numNeighbors of one vertex with angle < HALF_PI
AcutePairs(verts, e, start, cellSize, v, K) ==
    LET nb == SortedNeighbors(verts, e, start, cellSize, v, K)
        center == VertexAt(verts, e, start + v * FloatsPerVertex)
        vec(j) == Vec3Sub(VertexAt(verts, e, start + nb[j][2] * FloatsPerVertex), center)
    IN  {jk \in (1..Len(nb)) \X (1..Len(nb)) :
            jk[1] < jk[2] /\ calculateAngle(vec(jk[1]), vec(jk[2])) < HALF_PI}

RECURSIVE SumTo(_, _)
SumTo(f, n) == IF n < 0 THEN 0 ELSE f[n] + SumTo(f, n - 1)

\* acuteAngles after the loop over the vertices of a cell
AcuteAngles(verts, e, start, cellSize, K) ==
    SumTo([v \in 0..(cellSize - 1) |->
              Cardinality(AcutePairs(verts, e, start, cellSize, v, K))],
          cellSize - 1)

\* int cellSize = (end - start) / 3
CellSize(table, i) == TruncDiv(table[i + 2] - table[i + 1], FloatsPerVertex)

\* Faulty variant: the short-circuit taken below 3 vertices instead of 4
CellScore_Below3(verts, e, table, K, i) ==
    LET start == table[i + 1]
        cellSize == CellSize(table, i)
    IN  IF cellSize < MinCellSize - 1 THEN 0
        ELSE TruncDiv(AcuteAngles(verts, e, start, cellSize, K), cellSize)

\* Faulty variant: the cell's vertices taken from the start of the buffer
CellScore_IgnoresStart(verts, e, table, K, i) ==
    LET cellSize == CellSize(table, i)
    IN  IF cellSize < MinCellSize THEN 0
        ELSE TruncDiv(AcuteAngles(verts, e, 0, cellSize, K), cellSize)

\* The score pushed for cell i (0-based)
CellScore(verts, e, table, K, i) ==
    LET start == table[i + 1]
        cellSize == CellSize(table, i)
    IN  IF cellSize < MinCellSize THEN 0
        ELSE TruncDiv(AcuteAngles(verts, e, start, cellSize, K), cellSize)

\* The 0-based indices of `vertices` read while cell i is scored
CellReads(table, i) ==
    LET start == table[i + 1]
        cellSize == CellSize(table, i)
    IN  IF cellSize < MinCellSize THEN {}
        ELSE {start + v * FloatsPerVertex + c : v \in 0..(cellSize - 1), c \in 0..2}

\* cellIndices.size() - 1, the number of cells (the table is never empty)
NumCells(table) == Len(table) - 1

\* The loop over the cells: one push_back per cell, in cell order
RECURSIVE FullPassFrom(_, _, _, _, _, _)
FullPassFrom(verts, e, table, K, i, pushed) ==
    IF i >= NumCells(table) THEN pushed
    ELSE FullPassFrom(verts, e, table, K, i + 1,
                      Append(pushed, CellScore(verts, e, table, K, i)))

calculateCellAcuteness(verts, e, table, K) == FullPassFrom(verts, e, table, K, 0, <<>>)

(***************************************************************************)
(* updateCellAcuteness                                                     *)
(***************************************************************************)
\* A size_t is kept as w * 2^W + v (W the width of size_t, |v| < 2^31):
\* an int converts to <<1, x>> when negative and to <<0, x>> otherwise.
ToSizeT(x) == IF x < 0 THEN <<1, x>> ELSE <<0, x>>
SizeTGeq(a, b) == a[1] > b[1] \/ (a[1] = b[1] /\ a[2] >= b[2])

\* Faulty variant: the last cell is taken to be out of range too
SkipsCell_OffByOne(table, cellIdx) == cellIdx < 0 \/ cellIdx >= Len(table) - 2

\* if (cellIdx >= cellIndices.size() - 1) continue;
SkipsCell(table, cellIdx) == SizeTGeq(ToSizeT(cellIdx), ToSizeT(Len(table) - 1))

\* The value stored for an in-range cell: 0 for a small cell, else
\* acuteAngles / cellSize with acuteAngles left at its initial 0.
UpdatedScore(verts, e, table, cellIdx) ==
    LET cellSize == CellSize(table, cellIdx)
        acuteAngles == 0
    IN  IF cellSize < MinCellSize THEN 0 ELSE TruncDiv(acuteAngles, cellSize)

\* Faulty variant: every score is stored in the first slot
UpdatedSlot_First(cellIdx) == 0

\* The slot an in-range cell's score is stored in (0-based)
UpdatedSlot(cellIdx) == cellIdx

RECURSIVE updateCellAcuteness(_, _, _, _, _)
updateCellAcuteness(verts, e, table, changed, previousScores) ==
    IF changed = <<>> THEN previousScores
    ELSE LET cellIdx == Head(changed)
             next == IF SkipsCell(table, cellIdx) THEN previousScores
                     ELSE [previousScores EXCEPT ![UpdatedSlot(cellIdx) + 1] =
                               UpdatedScore(verts, e, table, cellIdx)]
         IN  updateCellAcuteness(verts, e, table, Tail(changed), next)

\* The ScoreTable slots and the CellTable entries one call touches
UpdateWrites(table, changed) ==
    {UpdatedSlot(changed[k]) : k \in {j \in 1..Len(changed) : ~SkipsCell(table, changed[j])}}

UpdateTableReads(table, changed) ==
    UNION {{changed[k], changed[k] + 1} :
               k \in {j \in 1..Len(changed) : ~SkipsCell(table, changed[j])}}

(***************************************************************************)
(* periodic_delaunay.cpp: the guarded initialisation of the geometry       *)
(* engine.  The engine itself is a collaborator: what compute() does is    *)
(* one of its three outcomes.                                              *)
(***************************************************************************)
\* Faulty variant: the flag is never set
initialize_geogram_NoFlag(flag) ==
    IF ~flag THEN [flag |-> flag, ev |-> <<"GEO::initialize">>]
    ELSE [flag |-> flag, ev |-> <<>>]

\* void initialize_geogram(): the flag afterwards and what was executed
initialize_geogram(flag) ==
    IF ~flag THEN [flag |-> TRUE, ev |-> <<"GEO::initialize">>]
    ELSE [flag |-> flag, ev |-> <<>>]

\* "null": compute() threw; "empty": nb_cells() = 0; "array": tetrahedra
Outcomes == {"null", "empty", "array"}

NumCalls(evs) == Cardinality({k \in 1..Len(evs) : evs[k] \in Outcomes})

(***************************************************************************)
(* Inputs                                                                  *)
(***************************************************************************)
\* The corners of the unit square of the z = 0 plane, and a point past the
\* square on its x edge (for straight and obtuse angles)
Points == {<<0, 0, 0>>, <<1, 0, 0>>, <<0, 1, 0>>, <<1, 1, 0>>, <<2, 0, 0>>}
Corner == <<(<<0, 0, 0>>), (<<1, 0, 0>>), (<<0, 1, 0>>), (<<1, 1, 0>>)>>

\* Coordinates as they are, and 2^-40 times them (inside [0, 1))
ScaleExps == {-40, 0}

KSet == (0..MaxK) \cup {DefaultK}

\* The flat buffer of a sequence of points
Flatten(ps) ==
    [i \in 1..(FloatsPerVertex * Len(ps)) |->
        ps[((i - 1) \div FloatsPerVertex) + 1][((i - 1) % FloatsPerVertex) + 1]]

\* Well-formed CellTables over n vertices: nondecreasing 3-aligned offsets
\* from 0 to the end of the buffer, for 0..MaxCells cells
CellTables(n) ==
    UNION {{t \in [1..(N + 1) -> {FloatsPerVertex * a : a \in 0..n}] :
               /\ t[1] = 0
               /\ t[N + 1] = FloatsPerVertex * n
               /\ \A k \in 1..N : t[k] <= t[k + 1]} : N \in 0..MaxCells}

\* Vertex j of a base pattern is corner ((j - 1) mod period) + 1: period 1 puts
\* every vertex on the origin, period 4 walks round the square.
BasePattern(n, period) == [j \in 1..n |-> Corner[((j - 1) % period) + 1]]

\* The point sequences that agree with ps after their first MaxMoved places
Moved(ps) ==
    {[j \in 1..Len(ps) |-> IF j <= MaxMoved THEN f[j] ELSE ps[j]] :
        f \in [1..Min(MaxMoved, Len(ps)) -> Points]}

InitCommon ==
    /\ maxNeighbors = DefaultK
    /\ scores = <<>>
    /\ op = "init"
    /\ vertexReads = {}
    /\ tableReads = {}
    /\ scoreWrites = {}
    /\ changedCells = <<>>
    /\ baseScores = <<>>
    /\ touched = {}
    /\ g_geogram_initialized = FALSE
    /\ events = <<>>

\* A buffer of up to MaxVerts vertices, a base pattern after its first
\* MaxMoved vertices, under any well-formed table, at any of the scales
InitScore ==
    /\ \E n \in 0..MaxVerts, period \in 1..Len(Corner) :
          /\ vertices \in {Flatten(qs) : qs \in Moved(BasePattern(n, period))}
          /\ cellIndices \in CellTables(n)
    /\ scaleExp \in ScaleExps
    /\ InitCommon

\* MaxVerts vertices walking round the unit square, or no vertex at all, under
\* any well-formed table
InitInc ==
    /\ \E n \in {0, MaxVerts} :
          /\ vertices = Flatten(BasePattern(n, Len(Corner)))
          /\ cellIndices \in CellTables(n)
    /\ scaleExp = 0
    /\ InitCommon

InitGeo ==
    /\ vertices = <<>>
    /\ cellIndices = <<0>>
    /\ scaleExp = 0
    /\ InitCommon

(***************************************************************************)
(* Operations                                                              *)
(***************************************************************************)
\* A full pass with neighbour count K: a fresh ScoreTable
CalculateCellAcuteness(K) ==
    /\ maxNeighbors' = K
    /\ scores' = calculateCellAcuteness(vertices, scaleExp, cellIndices, K)
    /\ op' = "full"
    /\ vertexReads' = UNION {CellReads(cellIndices, i) : i \in 0..(NumCells(cellIndices) - 1)}
    /\ tableReads' = IF NumCells(cellIndices) = 0 THEN {} ELSE 0..NumCells(cellIndices)
    /\ scoreWrites' = 0..(NumCells(cellIndices) - 1)
    /\ changedCells' = <<>>
    /\ baseScores' = scores'
    /\ touched' = {}
    /\ UNCHANGED <<vertices, scaleExp, cellIndices>>
    /\ UNCHANGED geoVars

\* An incremental pass over the caller's ScoreTable (one entry per cell,
\* produced by a full pass)
UpdateCellAcuteness(changed) ==
    /\ op # "init"
    /\ Len(scores) = NumCells(cellIndices)
    /\ scores' = updateCellAcuteness(vertices, scaleExp, cellIndices, changed, scores)
    /\ op' = "update"
    /\ vertexReads' = {}
    /\ tableReads' = UpdateTableReads(cellIndices, changed)
    /\ scoreWrites' = UpdateWrites(cellIndices, changed)
    /\ changedCells' = changed
    /\ touched' = touched \cup {changed[k] : k \in 1..Len(changed)}
    /\ UNCHANGED <<vertices, scaleExp, cellIndices, maxNeighbors, baseScores>>
    /\ UNCHANGED geoVars

\* compute_periodic_delaunay_js: initialise, create the Delaunay object,
\* compute, and return by the engine's outcome
ComputeDelaunay(is_periodic, outcome) ==
    /\ NumCalls(events) < MaxCalls
    /\ LET init == initialize_geogram(g_geogram_initialized)
       IN  /\ g_geogram_initialized' = init.flag
           /\ events' = events \o init.ev
                          \o <<IF is_periodic THEN "create periodic" ELSE "create">>
                          \o <<outcome>>
    /\ UNCHANGED scoreVars

\* Changed-cell lists: in-range indices, -1 and the first index past the end
ChangedLists ==
    UNION {[1..n -> (-1)..NumCells(cellIndices)] : n \in 0..MaxChanged}

\* One full pass over each input: explicit neighbour counts are tried at
\* scale 0, the default count at every scale
NextScore ==
    \E K \in KSet :
        /\ op = "init"
        /\ K = DefaultK \/ scaleExp = 0
        /\ CalculateCellAcuteness(K)

NextInc ==
    \/ CalculateCellAcuteness(DefaultK)
    \/ \E changed \in ChangedLists : UpdateCellAcuteness(changed)

NextGeo == \E is_periodic \in BOOLEAN, outcome \in Outcomes :
               ComputeDelaunay(is_periodic, outcome)

SpecScore == InitScore /\ [][NextScore]_vars
SpecInc == InitInc /\ [][NextInc]_vars
SpecGeo == InitGeo /\ [][NextGeo]_vars

(***************************************************************************)
(* Reference geometry for the properties: exact integer arithmetic on the  *)
(* mantissas of the buffer (the geometry is the same at every scale).      *)
(***************************************************************************)
N == NumCells(cellIndices)
Cells == 0..(N - 1)
SizeOf(i) == (cellIndices[i + 2] - cellIndices[i + 1]) \div FloatsPerVertex
StartOf(i) == cellIndices[i + 1]
BigCells == {i \in Cells : SizeOf(i) >= 4}
SmallCells == {i \in Cells : SizeOf(i) < 4}

\* The indices of the buffer that hold cell i
Slice(i) == {x \in 0..(Len(vertices) - 1) : cellIndices[i + 1] <= x /\ x < cellIndices[i + 2]}

\* The displacement from vertex v to vertex a of cell i, as three integers
RefVec(i, v, a) ==
    [c \in 1..3 |-> vertices[StartOf(i) + 3 * a + c] - vertices[StartOf(i) + 3 * v + c]]
RefDot(u, w) == u[1] * w[1] + u[2] * w[2] + u[3] * w[3]
RefDistSq(i, v, a) == RefDot(RefVec(i, v, a), RefVec(i, v, a))
Others(i, v) == (0..(SizeOf(i) - 1)) \ {v}

\* The angle at v between a and b is below a right angle; an angle with a
\* zero-length side is 0 by the classifier's stated policy.
RefAcute(i, v, a, b) ==
    \/ RefDistSq(i, v, a) = 0
    \/ RefDistSq(i, v, b) = 0
    \/ RefDot(RefVec(i, v, a), RefVec(i, v, b)) > 0
RefRightAngle(i, v, a, b) ==
    /\ RefDistSq(i, v, a) # 0
    /\ RefDistSq(i, v, b) # 0
    /\ RefDot(RefVec(i, v, a), RefVec(i, v, b)) = 0

\* The min(K, cellSize - 1) nearest other vertices, ties to the lower index
RefNearest(i, v, K) ==
    CHOOSE S \in SUBSET Others(i, v) :
        /\ Cardinality(S) = Min(K, SizeOf(i) - 1)
        /\ \A a \in S, b \in Others(i, v) \ S :
              \/ RefDistSq(i, v, a) < RefDistSq(i, v, b)
              \/ RefDistSq(i, v, a) = RefDistSq(i, v, b) /\ a < b

RefPairs(S) == {P \in SUBSET S : Cardinality(P) = 2}

RefAcuteCount(i, v, K) ==
    Cardinality({P \in RefPairs(RefNearest(i, v, K)) :
                    \A a \in P, b \in P : a = b \/ RefAcute(i, v, a, b)})

RECURSIVE RefTotal(_, _, _)
RefTotal(i, K, v) ==
    IF v < 0 THEN 0 ELSE RefAcuteCount(i, v, K) + RefTotal(i, K, v - 1)

\* What the model's full pass selects and counts for vertex v of cell i
Selected(i, v) ==
    SortedNeighbors(vertices, scaleExp, StartOf(i), SizeOf(i), v, maxNeighbors)
Counted(i, v) ==
    LET nb == Selected(i, v)
    IN  {{nb[jk[1]][2], nb[jk[2]][2]} :
            jk \in AcutePairs(vertices, scaleExp, StartOf(i), SizeOf(i), v, maxNeighbors)}

IsUnitSquare(i) ==
    /\ SizeOf(i) = 4
    /\ [k \in 1..12 |-> vertices[StartOf(i) + k]] = Flatten(Corner)

\* The float displacement from vertex v to vertex a of cell i, as the code forms it
FloatVec(i, v, a) ==
    Vec3Sub(VertexAt(vertices, scaleExp, StartOf(i) + FloatsPerVertex * a),
            VertexAt(vertices, scaleExp, StartOf(i) + FloatsPerVertex * v))

SelectedSet(i, v) == {Selected(i, v)[j][2] : j \in 1..Len(Selected(i, v))}

\* Cell i alone: its slice as a buffer of its own, under a one-cell table
SliceBuffer(i) == SubSeq(vertices, cellIndices[i + 1] + 1, cellIndices[i + 2])
ScoreAlone(i) ==
    calculateCellAcuteness(SliceBuffer(i), scaleExp, <<0, Len(SliceBuffer(i))>>,
                           maxNeighbors)[1]

InRange(x) == 0 <= x /\ x < N
Listed == {changedCells[k] : k \in 1..Len(changedCells)}

(***************************************************************************)
(* C1.  Incremental equivalence: after an incremental call over a table a  *)
(* full pass produced, every in-range listed cell holds the score a fresh  *)
(* full pass (default K) gives it.                                         *)
(***************************************************************************)
C1_IncrementalEquivalence ==
    op = "update" =>
        \A x \in Listed :
            InRange(x) =>
                scores[x + 1] =
                    calculateCellAcuteness(vertices, scaleExp, cellIndices, DefaultK)[x + 1]

(***************************************************************************)
(* C2.  Incremental frame: however many incremental calls were made, the   *)
(* table keeps its length, every entry no list named holds the value the   *)
(* full pass gave it, and a call writes only slots its list names.         *)
(***************************************************************************)
C2_IncrementalFrame ==
    op # "init" =>
        /\ Len(scores) = N
        /\ Len(baseScores) = N
        /\ \A i \in Cells : i \notin touched => scores[i + 1] = baseScores[i + 1]
        /\ op = "update" => scoreWrites \subseteq Listed

C2_Witness ==
    /\ op = "update"
    /\ \E i \in Cells : i \in touched /\ i \in scoreWrites
    /\ \E i \in Cells : i \notin touched /\ scores[i + 1] > 0

(***************************************************************************)
(* C3.  Out-of-range indices are skipped: an incremental call writes no    *)
(* slot and reads no table entry for a listed index that is negative or    *)
(* >= N, still processes every in-range index of the list, and returns the *)
(* table as it was when every listed index is out of range.                *)
(***************************************************************************)
C3_OutOfRangeSkipped ==
    [][op' = "update" =>
          /\ \A x \in Listed' : ~InRange(x) => x \notin scoreWrites'
          /\ tableReads' \subseteq UNION {{x, x + 1} : x \in {y \in Listed' : InRange(y)}}
          /\ \A x \in Listed' : InRange(x) => x \in scoreWrites'
          /\ (\A x \in Listed' : ~InRange(x)) => scores' = scores]_vars

C3_Witness ==
    /\ op = "update"
    /\ Len(changedCells) = 2
    /\ changedCells[1] >= N
    /\ InRange(changedCells[2])
    /\ scoreWrites = {changedCells[2]}
    /\ \E i \in Cells : scores[i + 1] > 0

(***************************************************************************)
(* C4.  Degenerate cells: a cell of fewer than 4 vertices scores 0 in a    *)
(* full pass, whatever K and the positions, with none of its coordinates   *)
(* read; an incremental call that lists it stores 0 in its slot.           *)
(***************************************************************************)
C4_DegenerateCellsScoreZero ==
    op = "full" =>
        \A i \in SmallCells :
            /\ scores[i + 1] = 0
            /\ vertexReads \cap Slice(i) = {}
            /\ updateCellAcuteness(vertices, scaleExp, cellIndices, <<i>>,
                                   [j \in 1..N |-> 1])[i + 1] = 0

C4_Witness ==
    /\ op = "full"
    /\ maxNeighbors = MaxK
    /\ \E i \in SmallCells :
          /\ SizeOf(i) = 3
          /\ RefDistSq(i, 0, 1) = 0
          /\ RefDistSq(i, 0, 2) # 0
          /\ scores[i + 1] = 0

(***************************************************************************)
(* C5.  Full-pass result: N entries in cell order, and for a cell of 4 or  *)
(* more vertices the truncated quotient T / cellSize, T the number, summed *)
(* over the cell's vertices, of unordered pairs of the vertex's            *)
(* min(K, cellSize - 1) nearest neighbours that make an acute angle at it; *)
(* the unit square with K = 6 has T = 8 and scores 2.                      *)
(***************************************************************************)
C5_FullPassResult ==
    op = "full" =>
        /\ Len(scores) = N
        /\ \A i \in BigCells :
              scores[i + 1] = RefTotal(i, maxNeighbors, SizeOf(i) - 1) \div SizeOf(i)
        /\ \A i \in BigCells :
              (IsUnitSquare(i) /\ maxNeighbors = DefaultK) =>
                  RefTotal(i, maxNeighbors, SizeOf(i) - 1) = 8 /\ scores[i + 1] = 2

(***************************************************************************)
(* C6.  Threshold boundary: a pair of selected neighbours is counted only  *)
(* if its angle is below a right angle; a pair of non-zero vectors with    *)
(* zero dot product is never counted, and a pair below a right angle is    *)
(* counted.                                                                *)
(***************************************************************************)
C6_ThresholdBoundary ==
    op = "full" =>
        \A i \in BigCells : \A v \in 0..(SizeOf(i) - 1) :
            \A P \in RefPairs(SelectedSet(i, v)) :
                LET a == CHOOSE x \in P : TRUE
                    b == CHOOSE x \in P : x # a
                IN  /\ P \in Counted(i, v) => RefAcute(i, v, a, b)
                    /\ RefRightAngle(i, v, a, b) => P \notin Counted(i, v)
                    /\ RefAcute(i, v, a, b) => P \in Counted(i, v)

(***************************************************************************)
(* C7.  Cell independence: after a full pass every entry is the score the  *)
(* cell's own slice gets when scored alone with the same K, there is one   *)
(* entry per cell, and only coordinates inside the slices of the cells     *)
(* that were scored have been read.                                        *)
(***************************************************************************)
C7_CellIndependence ==
    op = "full" =>
        /\ Len(scores) = N
        /\ scoreWrites = Cells
        /\ \A i \in Cells : scores[i + 1] = ScoreAlone(i)
        /\ vertexReads \subseteq UNION {Slice(i) : i \in BigCells}

C7_Witness ==
    /\ op = "full"
    /\ N = 2
    /\ SizeOf(0) = 1
    /\ 1 \in BigCells
    /\ scores[2] > 0
    /\ <<vertices[1], vertices[2], vertices[3]>> # <<vertices[4], vertices[5], vertices[6]>>

(***************************************************************************)
(* C8.  Neighbour selection: for every vertex v of a cell of 4 or more     *)
(* vertices the selected neighbours are min(K, cellSize - 1) distinct      *)
(* vertices of the cell other than v, in non-decreasing squared distance   *)
(* from v, none farther than a vertex left out; all others are selected    *)
(* when cellSize < K + 1.                                                  *)
(***************************************************************************)
C8_NeighbourSelection ==
    op = "full" =>
        \A i \in BigCells : \A v \in 0..(SizeOf(i) - 1) :
            LET nb == Selected(i, v)
                sel == SelectedSet(i, v)
            IN  /\ Len(nb) = Min(maxNeighbors, SizeOf(i) - 1)
                /\ Cardinality(sel) = Len(nb)
                /\ sel \subseteq Others(i, v)
                /\ \A j \in 1..(Len(nb) - 1) :
                      RefDistSq(i, v, nb[j][2]) <= RefDistSq(i, v, nb[j + 1][2])
                /\ \A a \in sel, b \in Others(i, v) \ sel :
                      RefDistSq(i, v, a) <= RefDistSq(i, v, b)
                /\ SizeOf(i) < maxNeighbors + 1 => sel = Others(i, v)

C8_Witness ==
    /\ op = "full"
    /\ maxNeighbors = MaxK
    /\ \E i \in BigCells : \E v \in 0..(SizeOf(i) - 1) :
          /\ Cardinality(SelectedSet(i, v)) = MaxK
          /\ \E a \in SelectedSet(i, v), b \in Others(i, v) \ SelectedSet(i, v) :
                RefDistSq(i, v, a) < RefDistSq(i, v, b)
          /\ \E a \in SelectedSet(i, v), b \in SelectedSet(i, v) :
                RefDistSq(i, v, a) < RefDistSq(i, v, b)

(***************************************************************************)
(* C9.  Zero-length policy: when a selected neighbour coincides with the   *)
(* centre vertex, calculateAngle gives angle 0 for every pair containing   *)
(* it and the pair is counted, whatever the other neighbour of the pair;   *)
(* a cell of 4 identical points with K = 6 scores 3.                       *)
(***************************************************************************)
C9_ZeroLengthIsAcute ==
    op = "full" =>
        \A i \in BigCells :
            /\ \A v \in 0..(SizeOf(i) - 1) :
                  \A a \in SelectedSet(i, v), b \in SelectedSet(i, v) :
                      (a # b /\ RefDistSq(i, v, a) = 0) =>
                          /\ calculateAngle(FloatVec(i, v, a), FloatVec(i, v, b)) = 0
                          /\ calculateAngle(FloatVec(i, v, b), FloatVec(i, v, a)) = 0
                          /\ {a, b} \in Counted(i, v)
            /\ (/\ SizeOf(i) = 4
                /\ maxNeighbors = DefaultK
                /\ \A v \in 1..3 : RefDistSq(i, 0, v) = 0) => scores[i + 1] = 3

C9_Witness ==
    /\ op = "full"
    /\ maxNeighbors = DefaultK
    /\ scaleExp # 0
    /\ \E i \in BigCells :
          /\ SizeOf(i) = 4
          /\ \A v \in 1..3 : RefDistSq(i, 0, v) = 0
          /\ scores[i + 1] = 3

(***************************************************************************)
(* C10.  Single initialisation: over any sequence of compute_delaunay      *)
(* calls GEO::initialize runs exactly once, as the first thing the first   *)
(* call does (before any Delaunay object is created), also after calls     *)
(* that returned null or an empty array.                                   *)
(***************************************************************************)
InitCount == Cardinality({k \in 1..Len(events) : events[k] = "GEO::initialize"})

C10_SingleInitialisation ==
    /\ g_geogram_initialized = (events # <<>>)
    /\ events # <<>> => InitCount = 1 /\ events[1] = "GEO::initialize"
    /\ events = <<>> => InitCount = 0

C10_Witness ==
    /\ NumCalls(events) = 3
    /\ events[3] = "null"
    /\ events[5] = "empty"
    /\ events[7] = "array"
    /\ InitCount = 1

====
